---- MODULE Spec2Model ----
(***************************************************************************)
(* Model of main() in crawl_infoq-deepcrawling.py: the deep crawl, the     *)
(* manual-URL fallback, the choice of the result list, the processing of   *)
(* the successful results and the two JSON dumps, all inside one           *)
(* `async with AsyncWebCrawler(...)` block.                                *)
(*                                                                         *)
(* Python values are modelled as follows.                                  *)
(*   str            a sequence of one-character strings                    *)
(*   Optional[x]    [some |-> BOOLEAN, val |-> x]  (None has some = FALSE) *)
(*   extracted_content   a sequence of JSON tokens [t, u, n]               *)
(*   CrawlResult    [url, success, extracted_content, markdown,            *)
(*                   error_message]                                        *)
(***************************************************************************)
EXTENDS Naturals, Sequences, FiniteSets, TLC

\* Longest list the deep crawl returns in the model (the source caps it at
\* max_pages = 10).
MaxPages == 3

\* `len(result) < 3` on line 78.
MinPages == 3

\* `markdown[:200]` on line 156.
PreviewLen == 200

\* `markdown[:500]` and `len(markdown) > 500` on line 177.
DetailLen == 500

\* urls_to_crawl, lines 58-66.
urls_to_crawl ==
    << "https://tradesquareltd.com/",
       "https://tradesquareltd.com/home",
       "https://tradesquareltd.com/our-story",
       "https://tradesquareltd.com/our-works",
       "https://tradesquareltd.com/our-services",
       "https://tradesquareltd.com/careers",
       "https://tradesquareltd.com/contact-us" >>

\* The url of the deep crawl, line 73.
SeedUrl == "https://tradesquareltd.com/"

---------------------------------------------------------------------------
\* Python values

None == [some |-> FALSE, val |-> <<>>]

Some(v) == [some |-> TRUE, val |-> v]

\* Truthiness of an Optional[str]: None and "" are both falsy
\* (`if page_result.extracted_content:`, `if page_result.markdown`).
Truthy(o) == o.some /\ o.val # <<>>

\* s[:n]
Slice(s, n) == SubSeq(s, 1, IF Len(s) < n THEN Len(s) ELSE n)

\* A str of n characters.
Text(n) == [i \in 1..n |-> <<"a", "b", "c", "d", "e">>[(i % 5) + 1]]

\* The literal "..." of lines 156 and 177.
Ellipsis == <<".", ".", ".">>

\* The literal "No content" of line 156.
NoContent == <<"N", "o", " ", "c", "o", "n", "t", "e", "n", "t">>

\* JSON text is a sequence of tokens: "[", "]", "," and "{}" (an object, which
\* carries the two values u and n that tell one object from another).
Tok(t, u, n) == [t |-> t, u |-> u, n |-> n]

LB == Tok("[", "", 0)

RB == Tok("]", "", 0)

COMMA == Tok(",", "", 0)

Obj(u, n) == Tok("{}", u, n)

\* The dict json.loads builds from an object token.
Dict(tok) == [src |-> tok.u, idx |-> tok.n]

\* Whether the tokens between "[" and "]" are objects separated by commas.
IsElements(inner) ==
    \/ inner = <<>>
    \/ /\ Len(inner) % 2 = 1
       /\ \A i \in 1..Len(inner) :
            IF i % 2 = 1 THEN inner[i].t = "{}" ELSE inner[i].t = ","

\* json.loads(s), line 140: a list, a single object, or JSONDecodeError.
\* ok = FALSE stands for the raised JSONDecodeError.
JsonLoads(s) ==
    IF Len(s) = 1 /\ s[1].t = "{}"
    THEN [ok |-> TRUE, isList |-> FALSE, value |-> <<Dict(s[1])>>]
    ELSE IF /\ Len(s) >= 2
            /\ s[1].t = "["
            /\ s[Len(s)].t = "]"
            /\ IsElements(SubSeq(s, 2, Len(s) - 1))
    THEN LET inner == SubSeq(s, 2, Len(s) - 1)
         IN [ok |-> TRUE, isList |-> TRUE,
             value |-> [k \in 1..((Len(inner) + 1) \div 2) |-> Dict(inner[2 * k - 1])]]
    ELSE [ok |-> FALSE, isList |-> FALSE, value |-> <<>>]

---------------------------------------------------------------------------
\* What AsyncWebCrawler.arun can hand back (the Page Fetcher is external: its
\* results are drawn from the sets below).

CrawlResult(url, success, content, markdown, err) ==
    [url |-> url, success |-> success, extracted_content |-> content,
     markdown |-> markdown, error_message |-> err]

FailedPage(url) ==
    CrawlResult(url, FALSE, None, None, Some(<<"e", "r", "r">>))

\* A successful page: its extracted_content and markdown by kind.
OkPage(url, kind) ==
    CASE kind = "list2" ->
           CrawlResult(url, TRUE,
                       Some(<<LB, Obj(url, 0), COMMA, Obj(url, 1), RB>>),
                       Some(Text(3)), None)
      [] kind = "list0_long" ->
           CrawlResult(url, TRUE, Some(<<LB, RB>>), Some(Text(DetailLen + 1)), None)
      [] kind = "single" ->
           CrawlResult(url, TRUE, Some(<<Obj(url, 0)>>), None, None)
      [] kind = "malformed" ->
           CrawlResult(url, TRUE, Some(<<LB, Obj(url, 0), COMMA>>), Some(Text(3)), None)
      [] kind = "empty_str" ->
           CrawlResult(url, TRUE, Some(<<>>), Some(Text(3)), None)
      [] kind = "none_none" ->
           CrawlResult(url, TRUE, None, None, None)
      [] kind = "none_empty" ->
           CrawlResult(url, TRUE, None, Some(<<>>), None)
      [] kind = "none_short" ->
           CrawlResult(url, TRUE, None, Some(Text(3)), None)
      [] kind = "none_exact" ->
           CrawlResult(url, TRUE, None, Some(Text(PreviewLen)), None)
      [] kind = "none_long" ->
           CrawlResult(url, TRUE, None, Some(Text(PreviewLen + 30)), None)

Page(url, kind) == IF kind = "failed" THEN FailedPage(url) ELSE OkPage(url, kind)

\* Page kinds of a whole run (deep crawl and manual crawl).
RunKinds == {"list2", "failed"}

\* Page kinds of a deep crawl whose list is processed as it is.
AllKinds == {"list2", "list0_long", "single", "malformed", "empty_str",
             "none_none", "none_empty", "none_short", "none_exact",
             "none_long", "failed"}

\* The lists of n pages with kinds from K; page j has the j-th known url.
PageLists(n, K) ==
    {[j \in 1..n |-> Page(urls_to_crawl[j], f[j])] : f \in [1..n -> K]}

ListResult(pages) == [isList |-> TRUE, pages |-> pages]

SingleResult(page) == [isList |-> FALSE, pages |-> <<page>>]

\* `result` before line 72 binds it.
Unbound == [isList |-> FALSE, pages |-> <<>>]

\* What the deep crawl of line 72 can return in a whole run.
DeepResults ==
    {ListResult(p) : p \in UNION {PageLists(n, RunKinds) : n \in 0..MaxPages}}
      \cup {SingleResult(Page(SeedUrl, k)) : k \in RunKinds}

---------------------------------------------------------------------------
\* The state of one run of main()

VARIABLES
    pc,                     \* where main() stands
    session,                \* the AsyncWebCrawler context: "none", "open", "closed"
    result,                 \* `result`
    manual_results,         \* `manual_results`
    url_i,                  \* position of `for url in urls_to_crawl`
    successful_results,     \* `successful_results`
    failed_results,         \* `failed_results`
    all_extracted_content,  \* `all_extracted_content`
    crawled_urls,           \* `crawled_urls`
    proc_i,                 \* position of `for i, page_result in enumerate(...)`
    branch_log,             \* per processed page, the branch of lines 138-157 taken
    detailed_data,          \* `detailed_data`
    files,                  \* what json.dump wrote, per output path
    log,                    \* the calls made on the crawler and the file system, in order
    exit_code,              \* value main() returned: "none", "0", "1"
    exception               \* exception that left main(): "none" or its name

vars == <<pc, session, result, manual_results, url_i, successful_results,
          failed_results, all_extracted_content, crawled_urls, proc_i,
          branch_log, detailed_data, files, log, exit_code, exception>>

crawlVars == <<result, manual_results, url_i>>

procVars == <<successful_results, failed_results, all_extracted_content,
              crawled_urls, proc_i, branch_log, detailed_data, files>>

\* One entry of the log: the call e, its url, how it was made or how it ended,
\* and what it returned (Unbound when it returned nothing).
Ev(e, url, how, ret) == [e |-> e, url |-> url, how |-> how, ret |-> ret]

\* AsyncWebCrawler.__aexit__: leaving the `async with` block of line 70, after
\* the calls evs.
AExit(evs) ==
    /\ session' = "closed"
    /\ log' = log \o evs \o <<Ev("aexit", "", "", Unbound)>>

\* RaiseInBlock as it would be without the context manager: the exception
\* leaves main() and nothing closes the crawler.
RaiseNoExit(exc, evs) ==
    /\ session' = session
    /\ log' = log \o evs
    /\ exception' = exc
    /\ exit_code' = "none"
    /\ pc' = "exited"

\* An exception raised inside the `async with` block that nothing catches:
\* __aexit__ runs, then the exception leaves main().
RaiseInBlock(exc, evs) ==
    /\ AExit(evs)
    /\ exception' = exc
    /\ exit_code' = "none"
    /\ pc' = "exited"

\* `return code` from inside the `async with` block (line 212), or falling out
\* of it to `return 0` (line 214).
ReturnFromBlock(code, evs) ==
    /\ AExit(evs)
    /\ exception' = "none"
    /\ exit_code' = code
    /\ pc' = "exited"

Init ==
    /\ pc = "load_schema"
    /\ session = "none"
    /\ result = Unbound
    /\ manual_results = <<>>
    /\ url_i = 1
    /\ successful_results = <<>>
    /\ failed_results = <<>>
    /\ all_extracted_content = <<>>
    /\ crawled_urls = <<>>
    /\ proc_i = 1
    /\ branch_log = <<>>
    /\ detailed_data = <<>>
    /\ files = [combined |-> None, detailed |-> None]
    /\ log = <<>>
    /\ exit_code = "none"
    /\ exception = "none"

\* Lines 21-22: open and json.load of the schema; either can raise, before the
\* crawler exists.
LoadSchema ==
    /\ pc = "load_schema"
    /\ \E ok \in BOOLEAN :
         IF ok
         THEN /\ pc' = "enter"
              /\ UNCHANGED <<exception, exit_code>>
         ELSE /\ pc' = "exited"
              /\ exception' = "schema_load"
              /\ exit_code' = "none"
    /\ UNCHANGED <<session, log, crawlVars, procVars>>

\* Line 70: AsyncWebCrawler.__aenter__.
Enter ==
    /\ pc = "enter"
    /\ session' = "open"
    /\ log' = Append(log, Ev("aenter", "", "", Unbound))
    /\ pc' = "deep_call"
    /\ UNCHANGED <<exit_code, exception, crawlVars, procVars>>

\* Line 72: the deep crawl is started and awaited.
DeepCall ==
    /\ pc = "deep_call"
    /\ log' = Append(log, Ev("arun", SeedUrl, "deep", Unbound))
    /\ pc' = "deep_await"
    /\ UNCHANGED <<session, exit_code, exception, crawlVars, procVars>>

\* NeedsManual with `<=` for `<`.
NeedsManualAtMost(r) == r.isList /\ Len(r.pages) <= MinPages

\* Line 78: whether the manual crawl is tried.
NeedsManual(r) == r.isList /\ Len(r.pages) < MinPages

\* Lines 72-78 and 95: the deep crawl returns r.
DeepReturn ==
    /\ pc = "deep_await"
    /\ \E r \in DeepResults :
         /\ result' = r
         /\ log' = Append(log, Ev("arun_done", SeedUrl,
                                  IF r.isList THEN "list" ELSE "single", r))
         /\ pc' = IF NeedsManual(r) THEN "manual_call" ELSE "handle"
    /\ manual_results' = <<>>
    /\ url_i' = 1
    /\ UNCHANGED <<session, exit_code, exception, procVars>>

\* Line 72 raises: there is no try around it, so the exception leaves the
\* `async with` block and main().
DeepRaise ==
    /\ pc = "deep_await"
    /\ RaiseInBlock("fetch_error", <<Ev("arun_done", SeedUrl, "raised", Unbound)>>)
    /\ UNCHANGED <<crawlVars, procVars>>

\* Line 99: the manual crawl of the url at url_i is started and awaited.
ManualCall ==
    /\ pc = "manual_call"
    /\ log' = Append(log, Ev("arun", urls_to_crawl[url_i], "manual", Unbound))
    /\ pc' = "manual_await"
    /\ UNCHANGED <<session, exit_code, exception, crawlVars, procVars>>

\* Line 109: `len(manual_results) > len(result) if isinstance(result, list) else 1`.
UseManual(mr, r) == IF r.isList THEN Len(mr) > Len(r.pages) ELSE TRUE

\* Lines 100-104: what the loop keeps of a returned page_result.
KeepManual(mr, page) == IF page.success THEN Append(mr, page) ELSE mr

\* The end of one turn of the loop of line 96 with manual_results = mr: the
\* next url, or after the last one lines 108-111.
NextUrl(mr) ==
    /\ url_i' = url_i + 1
    /\ IF url_i < Len(urls_to_crawl)
       THEN /\ pc' = "manual_call"
            /\ manual_results' = mr
            /\ result' = result
       ELSE /\ pc' = "handle"
            /\ manual_results' = mr
            /\ result' = IF UseManual(mr, result) THEN ListResult(mr) ELSE result

\* Lines 99-104: the manual crawl of one url returns a page_result.
ManualReturn ==
    /\ pc = "manual_await"
    /\ \E k \in RunKinds :
         LET page == Page(urls_to_crawl[url_i], k)
         IN /\ log' = Append(log, Ev("arun_done", page.url,
                                     IF page.success THEN "ok" ELSE "failed",
                                     SingleResult(page)))
            /\ NextUrl(KeepManual(manual_results, page))
    /\ UNCHANGED <<session, exit_code, exception, procVars>>

\* ManualRaise as it would be without the try of line 98: the exception
\* leaves the block and main().
ManualRaiseUncaught ==
    /\ pc = "manual_await"
    /\ RaiseInBlock("fetch_error",
                    <<Ev("arun_done", urls_to_crawl[url_i], "raised", Unbound)>>)
    /\ UNCHANGED <<crawlVars, procVars>>

\* Lines 105-106: the manual crawl of one url raises; `except Exception`
\* prints and the loop goes on.
ManualRaise ==
    /\ pc = "manual_await"
    /\ log' = Append(log, Ev("arun_done", urls_to_crawl[url_i], "raised", Unbound))
    /\ NextUrl(manual_results)
    /\ UNCHANGED <<session, exit_code, exception, procVars>>

---------------------------------------------------------------------------
\* Lines 113-214: the results are processed and saved

\* Succeeded as it would be if pages without extracted content were left out.
SucceededWithContent(r) == r.success /\ Truthy(r.extracted_content)

Succeeded(r) == r.success

NotSucceeded(r) == ~r.success

\* Line 156: `page_result.markdown[:200] + "..." if page_result.markdown else
\* "No content"`; the conditional binds weaker than `+`.
MarkdownPreview(md) ==
    IF Truthy(md) THEN Slice(md.val, PreviewLen) \o Ellipsis ELSE NoContent

\* Lines 153-157: the entry of a page without extracted content.
NoExtractionEntry(page) ==
    [url |-> page.url, status |-> "no_extraction",
     markdown_preview |-> MarkdownPreview(page.markdown)]

\* Lines 147-150: the entry of a page whose extracted content is not JSON.
RawEntry(page) ==
    [url |-> page.url, content |-> page.extracted_content.val]

\* Lines 138-157: which branch one successful page takes.
Branch(page) ==
    IF Truthy(page.extracted_content)
    THEN LET content == JsonLoads(page.extracted_content.val)
         IN IF content.ok
            THEN IF content.isList THEN "extend" ELSE "append"
            ELSE "not_json"
    ELSE "no_extraction"

\* Extracted as it would be with `except json.JSONDecodeError: pass`.
ExtractedSkipsNotJson(page) ==
    IF Truthy(page.extracted_content)
    THEN LET content == JsonLoads(page.extracted_content.val)
         IN IF content.ok THEN content.value ELSE <<>>
    ELSE <<[url |-> page.url, status |-> "no_extraction",
            markdown_preview |-> MarkdownPreview(page.markdown)]>>

\* Lines 138-157: what one successful page adds to all_extracted_content.
Extracted(page) ==
    IF Truthy(page.extracted_content)
    THEN LET content == JsonLoads(page.extracted_content.val)
         IN IF content.ok
            THEN content.value
            ELSE <<RawEntry(page)>>
    ELSE <<NoExtractionEntry(page)>>

\* Line 177: `markdown[:500] + "..." if markdown and len(markdown) > 500 else
\* markdown`.
DetailMarkdown(md) ==
    IF Truthy(md) /\ Len(md.val) > DetailLen
    THEN Some(Slice(md.val, DetailLen) \o Ellipsis)
    ELSE md

\* Lines 173-178.
PageData(page) ==
    [url |-> page.url, success |-> page.success,
     extracted_content |-> page.extracted_content,
     markdown |-> DetailMarkdown(page.markdown)]

\* Lines 171-179: detailed_data after the loop over successful_results.
DetailedData(pages) == [k \in 1..Len(pages) |-> PageData(pages[k])]

\* Lines 114-127 for a list, lines 205-212 for a single result.
Handle ==
    /\ pc = "handle"
    /\ IF result.isList
       THEN /\ successful_results' = SelectSeq(result.pages, Succeeded)
            /\ failed_results' = SelectSeq(result.pages, NotSucceeded)
            /\ all_extracted_content' = <<>>
            /\ crawled_urls' = <<>>
            /\ proc_i' = 1
            /\ pc' = "process"
            /\ UNCHANGED <<session, log, exit_code, exception>>
       ELSE /\ ReturnFromBlock(IF result.pages[1].success THEN "0" ELSE "1", <<>>)
            /\ UNCHANGED <<successful_results, failed_results,
                           all_extracted_content, crawled_urls, proc_i>>
    /\ UNCHANGED <<crawlVars, branch_log, detailed_data, files>>

\* ProcessPage as it would be if the new entries went to the front of
\* all_extracted_content.
ProcessPagePrepends ==
    /\ pc = "process"
    /\ proc_i <= Len(successful_results)
    /\ LET page_result == successful_results[proc_i]
       IN /\ crawled_urls' = Append(crawled_urls, page_result.url)
          /\ all_extracted_content' = Extracted(page_result) \o all_extracted_content
          /\ branch_log' = Append(branch_log, Branch(page_result))
    /\ proc_i' = proc_i + 1
    /\ UNCHANGED <<pc, session, log, exit_code, exception, crawlVars,
                   successful_results, failed_results, detailed_data, files>>

\* Lines 129-157: one turn of the loop over successful_results.
ProcessPage ==
    /\ pc = "process"
    /\ proc_i <= Len(successful_results)
    /\ LET page_result == successful_results[proc_i]
       IN /\ crawled_urls' = Append(crawled_urls, page_result.url)
          /\ all_extracted_content' = all_extracted_content \o Extracted(page_result)
          /\ branch_log' = Append(branch_log, Branch(page_result))
    /\ proc_i' = proc_i + 1
    /\ UNCHANGED <<pc, session, log, exit_code, exception, crawlVars,
                   successful_results, failed_results, detailed_data, files>>

\* Lines 159-167, after the loop: makedirs, open and json.dump of
\* all_extracted_content; an OSError leaves the block and main().
SaveCombined ==
    /\ pc = "process"
    /\ proc_i > Len(successful_results)
    /\ \E ok \in BOOLEAN :
         IF ok
         THEN /\ files' = [files EXCEPT !.combined = Some(all_extracted_content)]
              /\ log' = Append(log, Ev("dump", "output/deep_crawl_output.json", "", Unbound))
              /\ pc' = "save_detailed"
              /\ UNCHANGED <<session, exit_code, exception>>
         ELSE /\ RaiseInBlock("os_error", <<>>)
              /\ UNCHANGED files
    /\ UNCHANGED <<crawlVars, successful_results, failed_results,
                   all_extracted_content, crawled_urls, proc_i, branch_log,
                   detailed_data>>

\* Lines 169-214: detailed_data is built and dumped, the summaries are
\* printed, the block is left and main() returns 0; an OSError of the dump
\* leaves the block and main().
SaveDetailed ==
    /\ pc = "save_detailed"
    /\ detailed_data' = DetailedData(successful_results)
    /\ \E ok \in BOOLEAN :
         IF ok
         THEN /\ files' = [files EXCEPT !.detailed = Some(detailed_data')]
              /\ ReturnFromBlock("0", <<Ev("dump", "output/deep_crawl_detailed.json", "", Unbound)>>)
         ELSE /\ RaiseInBlock("os_error", <<>>)
              /\ UNCHANGED files
    /\ UNCHANGED <<crawlVars, successful_results, failed_results,
                   all_extracted_content, crawled_urls, proc_i, branch_log>>

\* Lines 217-218: the status the process ends with (an exception that leaves
\* asyncio.run ends the interpreter with status 1).
ExitStatus == IF exception # "none" THEN "1" ELSE exit_code

---------------------------------------------------------------------------
\* A whole run.
Next ==
    \/ LoadSchema
    \/ Enter
    \/ DeepCall
    \/ DeepReturn
    \/ DeepRaise
    \/ ManualCall
    \/ ManualReturn
    \/ ManualRaise
    \/ Handle
    \/ ProcessPage
    \/ SaveCombined
    \/ SaveDetailed

Spec == Init /\ [][Next]_vars

\* The run from the point where the deep crawl has returned a list of at
\* least MinPages pages (lines 72-78 done, the manual crawl skipped): the
\* pages of the list are of every kind.
RecInit ==
    /\ pc = "handle"
    /\ session = "open"
    /\ result \in {ListResult(p) :
                     p \in UNION {PageLists(n, AllKinds) : n \in MinPages..MaxPages}}
    /\ manual_results = <<>>
    /\ url_i = 1
    /\ successful_results = <<>>
    /\ failed_results = <<>>
    /\ all_extracted_content = <<>>
    /\ crawled_urls = <<>>
    /\ proc_i = 1
    /\ branch_log = <<>>
    /\ detailed_data = <<>>
    /\ files = [combined |-> None, detailed |-> None]
    /\ log = <<Ev("aenter", "", "", Unbound), Ev("arun", SeedUrl, "deep", Unbound),
               Ev("arun_done", SeedUrl, "list", result)>>
    /\ exit_code = "none"
    /\ exception = "none"

RecNext ==
    \/ Handle
    \/ ProcessPage
    \/ SaveCombined
    \/ SaveDetailed

RecSpec == RecInit /\ [][RecNext]_vars

---------------------------------------------------------------------------
\* Reading the log

Indices(e) == {i \in DOMAIN log : log[i].e = e}

\* The calls of crawler.arun, all of them and by configuration.
ArunIdx == Indices("arun")

DeepIdx == {i \in ArunIdx : log[i].how = "deep"}

ManualIdx == {i \in ArunIdx : log[i].how = "manual"}

\* The ends of the deep crawl call and of the manual crawl calls.
EndsCall(i, how) ==
    /\ i > 1
    /\ log[i].e = "arun_done"
    /\ log[i - 1].e = "arun"
    /\ log[i - 1].how = how

DeepDoneIdx == {i \in DOMAIN log : EndsCall(i, "deep")}

ManualDoneIdx == {i \in DOMAIN log : EndsCall(i, "manual")}

IsManualArun(ev) == ev.e = "arun" /\ ev.how = "manual"

\* The urls of the manual crawl calls, in the order of the calls.
ManualUrls ==
    LET calls == SelectSeq(log, IsManualArun)
    IN [k \in 1..Len(calls) |-> calls[k].url]

\* How the manual crawl calls ended, in the order of the calls.
IsManualDone(i) == EndsCall(i, "manual")

ManualEnds ==
    LET ends == SelectSeq([i \in DOMAIN log |-> i], IsManualDone)
    IN [k \in 1..Len(ends) |-> log[ends[k]].how]

IsPrefix(a, b) == Len(a) <= Len(b) /\ a = SubSeq(b, 1, Len(a))

DeepReturned == DeepDoneIdx # {} /\ \A i \in DeepDoneIdx : log[i].how # "raised"

\* What the deep crawl returned (when DeepReturned).
DeepRet == log[CHOOSE i \in DeepDoneIdx : TRUE].ret

\* The deep crawl returned a list of fewer than 3 results.
FallbackDue == DeepReturned /\ DeepRet.isList /\ Len(DeepRet.pages) < 3

\* main() is past the crawling (line 113 or later, or it has ended).
CrawlOver == pc \in {"handle", "process", "save_detailed", "exited"}

---------------------------------------------------------------------------
\* C1: when the deep crawl returns a list of fewer than 3 results, crawler.arun
\* is called exactly once for every url of urls_to_crawl, in list order, each
\* call ending before the next begins, whatever the earlier manual calls
\* returned or raised.
C1_FallbackFetchesEveryUrl ==
    /\ IsPrefix(ManualUrls, urls_to_crawl)
    /\ \A i \in ArunIdx :
         i = Len(log) \/ (log[i + 1].e = "arun_done" /\ log[i + 1].url = log[i].url)
    /\ \A i \in Indices("arun_done") :
         i - 1 \in ArunIdx /\ log[i - 1].url = log[i].url
    /\ (FallbackDue /\ pc \in {"manual_call", "manual_await"}) =>
         /\ url_i \in 1..Len(urls_to_crawl)
         /\ Len(ManualUrls) = IF pc = "manual_call" THEN url_i - 1 ELSE url_i
    /\ (FallbackDue /\ CrawlOver) => ManualUrls = urls_to_crawl

\* A finished run whose manual crawl met a raised call and a failed call
\* before its last url and still called every url.
C1_Witness ==
    /\ pc = "exited"
    /\ FallbackDue
    /\ ManualUrls = urls_to_crawl
    /\ Len(ManualEnds) = Len(urls_to_crawl)
    /\ ManualEnds[1] = "raised"
    /\ ManualEnds[2] = "failed"
    /\ ManualEnds[Len(urls_to_crawl)] = "ok"

\* C9: the crawler context is entered exactly once, before the first
\* crawler.arun, and left exactly once however main() ends after that (return
\* 0, return 1, an exception of arun, an OSError of a dump); every arun call
\* lies between the two, and main() never ends with the context open.
C9_SessionScoped ==
    LET entered == Indices("aenter")
        left == Indices("aexit")
    IN /\ Cardinality(entered) <= 1
       /\ Cardinality(left) <= Cardinality(entered)
       /\ (session = "open") = (Cardinality(entered) = 1 /\ left = {})
       /\ (session = "closed") = (Cardinality(left) = 1)
       /\ \A i \in ArunIdx \cup Indices("arun_done") :
            /\ \E e \in entered : e < i
            /\ \A x \in left : i < x
       /\ pc \in {"deep_await", "manual_await"} => session = "open"
       /\ pc = "exited" => session # "open" /\ Cardinality(left) = Cardinality(entered)
       /\ (pc = "exited" /\ exception # "schema_load") =>
            Cardinality(entered) = 1 /\ Cardinality(left) = 1

\* A run ended by an OSError of a dump, after crawling, with the context left.
C9_Witness ==
    /\ pc = "exited"
    /\ exception = "os_error"
    /\ ArunIdx # {}
    /\ session = "closed"
    /\ Indices("aexit") = {Len(log)}

\* C10: the deep crawl call is the first crawler.arun call and the only one
\* with the deep-crawl configuration; manual calls are made only after it
\* returned a list of fewer than 3 results; after a list of 3 or more results,
\* or a single result, no manual call is made and `result` stays what the deep
\* crawl returned; a run makes at most 1 + len(urls_to_crawl) calls, and no
\* file is dumped before the last of them has ended.
C10_DeepFirstManualOnlyIfFew ==
    /\ Cardinality(DeepIdx) <= 1
    /\ ArunIdx # {} => \E d \in DeepIdx : \A i \in ArunIdx : d <= i
    /\ (pc = "exited" /\ exception # "schema_load") => Cardinality(DeepIdx) = 1
    /\ ManualIdx # {} => FallbackDue
    /\ (DeepReturned /\ ~FallbackDue) =>
         /\ ManualIdx = {}
         /\ result = DeepRet
    /\ Cardinality(ArunIdx) <= 1 + Len(urls_to_crawl)
    /\ \A d \in Indices("dump") :
         \A i \in ArunIdx \cup Indices("arun_done") : i < d
    /\ Indices("dump") # {} => CrawlOver

\* A finished run whose deep crawl returned a list of 3 results: one call,
\* both files dumped.
C10_Witness ==
    /\ pc = "exited"
    /\ exit_code = "0"
    /\ DeepReturned
    /\ DeepRet.isList
    /\ Len(DeepRet.pages) = 3
    /\ Cardinality(ArunIdx) = 1
    /\ Cardinality(Indices("dump")) = 2
    /\ result = DeepRet

\* C2 as claimed: after the manual crawl, `result` is the manual list if the
\* number of urls it attempted (returned or raised, successful or not) exceeds
\* the number of results of the deep crawl, and is otherwise what the deep
\* crawl returned.
C2_Claim ==
    (FallbackDue /\ CrawlOver) =>
        IF Cardinality(ManualDoneIdx) > Len(DeepRet.pages)
        THEN result = ListResult(manual_results)
        ELSE result = DeepRet

\* C3 as claimed: after the manual crawl, manual_results holds one result per
\* url of urls_to_crawl, in list order, and the result of a url whose call
\* failed or raised has success = False and an error message.
C3_Claim ==
    (FallbackDue /\ CrawlOver) =>
        /\ Len(manual_results) = Len(urls_to_crawl)
        /\ \A j \in DOMAIN manual_results :
             /\ manual_results[j].url = urls_to_crawl[j]
             /\ ManualEnds[j] \in {"failed", "raised"} =>
                  /\ ~manual_results[j].success
                  /\ manual_results[j].error_message.some

\* C4 as claimed: a run in which some crawler.arun call raised is not ended by
\* that exception: unless a dump fails, it dumps both files and the process
\* ends with status 0.
C4_Claim ==
    (/\ pc = "exited"
     /\ \E i \in Indices("arun_done") : log[i].how = "raised"
     /\ exception # "os_error") =>
        /\ exception = "none"
        /\ files.combined.some
        /\ files.detailed.some
        /\ ExitStatus = "0"

---------------------------------------------------------------------------
\* What the processing is expected to make of a list of results

\* The objects of a JSON text, in the order they stand in it.
IsObject(tok) == tok.t = "{}"

ObjectsIn(s) ==
    LET objs == SelectSeq(s, IsObject)
    IN [k \in 1..Len(objs) |-> [src |-> objs[k].u, idx |-> objs[k].n]]

\* What one successful page is expected to add: the elements of its list in
\* their order when its extracted content is a JSON list, and otherwise the
\* one entry lines 144-157 make of it.
Contribution(page) ==
    IF Branch(page) = "extend"
    THEN ObjectsIn(page.extracted_content.val)
    ELSE Extracted(page)

RECURSIVE ExpectedAll(_)
\* The contributions of the successful pages, in page order.
ExpectedAll(pages) ==
    IF pages = <<>>
    THEN <<>>
    ELSE (IF Head(pages).success THEN Contribution(Head(pages)) ELSE <<>>)
           \o ExpectedAll(Tail(pages))

RECURSIVE OkUrls(_)
\* The urls of the successful pages, in page order.
OkUrls(pages) ==
    IF pages = <<>>
    THEN <<>>
    ELSE (IF Head(pages).success THEN <<Head(pages).url>> ELSE <<>>)
           \o OkUrls(Tail(pages))

\* The loop of lines 129-157 has ended.
Processed ==
    \/ pc = "process" /\ proc_i > Len(successful_results)
    \/ pc = "save_detailed"
    \/ pc = "exited" /\ result.isList /\ exception # "fetch_error"

\* Both files were dumped and main() returned 0.
Saved == pc = "exited" /\ exit_code = "0" /\ files.detailed.some

\* C5: for the list that is processed, every successful result takes exactly
\* one of the four branches of lines 138-157 (extend, append, not-JSON entry,
\* no-extraction entry) and gets exactly one entry of detailed_data; failed
\* results get neither, and no successful result is skipped.
C5_OnePerSuccessfulPage ==
    LET oks == OkUrls(result.pages)
    IN /\ \A k \in DOMAIN branch_log :
            branch_log[k] \in {"extend", "append", "not_json", "no_extraction"}
       /\ pc = "process" =>
            /\ Len(successful_results) = Len(oks)
            /\ Len(branch_log) = proc_i - 1
            /\ crawled_urls = SubSeq(oks, 1, proc_i - 1)
       /\ Processed =>
            /\ Len(branch_log) = Len(oks)
            /\ crawled_urls = oks
            /\ \A k \in DOMAIN branch_log :
                 branch_log[k] = Branch(successful_results[k])
       /\ Saved =>
            /\ Len(detailed_data) = Len(oks)
            /\ \A k \in DOMAIN detailed_data :
                 detailed_data[k].url = oks[k] /\ detailed_data[k].success
            /\ files.detailed = Some(detailed_data)

\* A saved run over a list with a failed page and successful pages of the
\* no-extraction and the not-JSON kind.
C5_Witness ==
    /\ Saved
    /\ \E k \in DOMAIN result.pages : ~result.pages[k].success
    /\ \E k \in DOMAIN branch_log : branch_log[k] = "no_extraction"
    /\ \E k \in DOMAIN branch_log : branch_log[k] = "not_json"
    /\ Len(detailed_data) = Len(result.pages) - 1

\* C6: all_extracted_content is the concatenation, in the page order of the
\* processed list, of what each successful page contributes, a JSON list
\* contributing its elements in their order; detailed_data is in the same
\* page order.
C6_PageOrderKept ==
    /\ Processed => all_extracted_content = ExpectedAll(result.pages)
    /\ Saved =>
         /\ files.combined = Some(ExpectedAll(result.pages))
         /\ [k \in 1..Len(detailed_data) |-> detailed_data[k].url] = OkUrls(result.pages)

\* Three successful pages A, B, C with 2-element lists give A0, A1, B0, B1,
\* C0, C1.
C6_Witness ==
    /\ Saved
    /\ result.pages = [j \in 1..3 |-> Page(urls_to_crawl[j], "list2")]
    /\ all_extracted_content =
         << [src |-> urls_to_crawl[1], idx |-> 0], [src |-> urls_to_crawl[1], idx |-> 1],
            [src |-> urls_to_crawl[2], idx |-> 0], [src |-> urls_to_crawl[2], idx |-> 1],
            [src |-> urls_to_crawl[3], idx |-> 0], [src |-> urls_to_crawl[3], idx |-> 1] >>

\* The markdown_preview C7 claims: "No content" without markdown, the markdown
\* itself up to 200 characters, its first 200 characters and "..." beyond.
ClaimedPreview(md) ==
    IF ~md.some \/ md.val = <<>>
    THEN NoContent
    ELSE IF Len(md.val) <= 200
         THEN md.val
         ELSE SubSeq(md.val, 1, 200) \o Ellipsis

\* C7 as claimed: a successful page without extracted content adds the one
\* entry {url, status: "no_extraction", markdown_preview} with the preview
\* above.
C7_Claim ==
    (/\ pc = "process"
     /\ proc_i > 1
     /\ ~successful_results[proc_i - 1].extracted_content.some) =>
        LET page == successful_results[proc_i - 1]
        IN /\ all_extracted_content # <<>>
           /\ all_extracted_content[Len(all_extracted_content)] =
                [url |-> page.url, status |-> "no_extraction",
                 markdown_preview |-> ClaimedPreview(page.markdown)]

\* The entry C8 claims for a page whose extracted content is not JSON.
ClaimedRawEntry(page) == [url |-> page.url, content |-> page.extracted_content.val]

\* With the page at k being one that Cond picks out, all_extracted_content is
\* what the pages before it give, then its one raw entry, then what the pages
\* after it give.
RawEntryBetween(k) ==
    LET pages == result.pages
    IN all_extracted_content =
         ExpectedAll(SubSeq(pages, 1, k - 1))
           \o <<ClaimedRawEntry(pages[k])>>
           \o ExpectedAll(SubSeq(pages, k + 1, Len(pages)))

\* C8 as claimed: every successful page whose extracted content is present
\* (not None) and is not JSON adds exactly the entry {url, content}, the other
\* pages add what they add without it, and no exception of the parse leaves
\* main().
C8_Claim ==
    /\ exception \in {"none", "os_error"}
    /\ Processed =>
         \A k \in DOMAIN result.pages :
           LET page == result.pages[k]
           IN (/\ page.success
               /\ page.extracted_content.some
               /\ ~JsonLoads(page.extracted_content.val).ok) => RawEntryBetween(k)

\* C8 as amended: the same for every successful page whose extracted content
\* is a non-empty string that is not JSON.
C8_NotJsonKeptRaw ==
    /\ exception \in {"none", "os_error"}
    /\ Processed =>
         \A k \in DOMAIN result.pages :
           LET page == result.pages[k]
           IN (/\ page.success
               /\ page.extracted_content.some
               /\ page.extracted_content.val # <<>>
               /\ ~JsonLoads(page.extracted_content.val).ok) => RawEntryBetween(k)

\* A saved run whose second page is successful with non-empty extracted
\* content that is not JSON, between a page with a JSON list and a page
\* without extracted content.
C8_Witness ==
    /\ Saved
    /\ Len(result.pages) = 3
    /\ result.pages[1] = Page(urls_to_crawl[1], "list2")
    /\ result.pages[2] = Page(urls_to_crawl[2], "malformed")
    /\ result.pages[3] = Page(urls_to_crawl[3], "none_long")
    /\ Len(all_extracted_content) = 4
    /\ all_extracted_content[3] = ClaimedRawEntry(result.pages[2])
    /\ branch_log = <<"extend", "not_json", "no_extraction">>

====
